---- MODULE Spec2Model ----
(***************************************************************************)
(* Model of the vsql_ai extension: the SQL functions ai_prompt and         *)
(* create_embed (boundary adapter), the provider factory, the Anthropic    *)
(* and Google providers, and the HTTP client they post through.            *)
(*                                                                         *)
(* Strings are TLA+ strings (std::string); Len, \o and SubSeq are length, *)
(* operator+ and substr.  JSON text is parsed and serialised by the        *)
(* operators json_parse and dump below, which follow nlohmann::json on the *)
(* subset of JSON documented at json_parse.                                *)
(***************************************************************************)
EXTENDS Integers, Sequences, FiniteSets, TLC

(***************************************************************************)
(* Bounds of the model.                                                    *)
(***************************************************************************)
\* host buffer sizes 0..MaxBuf are explored besides the registered 65535
MaxBuf == 4
\* length of the over-long provider name, error text and response body
LongLen == 300
\* invocations the host runs at the same time
MaxInvocations == 2

(***************************************************************************)
(* Program constants.                                                      *)
(***************************************************************************)
\* longest error message copied into result->error_msg
ErrorMsgMax == 255
\* prefix of the response body quoted in a synthesized HTTP error
BodyPrefixLen == 100
\* timeout passed to HttpClient::post by every provider
TimeoutSeconds == 30
\* .buffer_size(65535) of both registered functions
BufferSize == 65535
\* max_tokens of every Anthropic request
MaxTokens == 1024
\* INT_MAX, above which std::stoi throws std::out_of_range
IntMax == 2147483647

(***************************************************************************)
(* std::string helpers.                                                    *)
(***************************************************************************)
\* s[i], 1-based
Ch(s, i) == SubSeq(s, i, i)

\* std::string::substr(pos, n), pos 0-based and pos <= size
substr(s, pos, n) ==
  LET last == IF pos + n > Len(s) THEN Len(s) ELSE pos + n
  IN  SubSeq(s, pos + 1, last)

\* std::string::empty
empty(s) == Len(s) = 0

RECURSIVE Rep(_, _)
\* s repeated n times (std::string(n, c) for a one-character s)
Rep(s, n) ==
  IF n = 0 THEN ""
  ELSE LET h == Rep(s, n \div 2) IN h \o h \o (IF n % 2 = 1 THEN s ELSE "")

\* the first index from p on whose character is in chars, Len(s) + 1 if none
\* (std::string::find_first_of, 1-based)
FirstIn(s, p, chars) ==
  LET S == {i \in p..Len(s) : Ch(s, i) \in chars} IN
  IF S = {} THEN Len(s) + 1 ELSE CHOOSE i \in S : \A j \in S : i <= j

\* the first index from p on whose character is not in chars
\* (std::string::find_first_not_of, 1-based)
FirstNotIn(s, p, chars) ==
  LET S == {i \in p..Len(s) : Ch(s, i) \notin chars} IN
  IF S = {} THEN Len(s) + 1 ELSE CHOOSE i \in S : \A j \in S : i <= j

Digits == "0123456789"

DigitChars == {Ch(Digits, i) : i \in 1..10}

IsDigit(c) == c \in DigitChars

DigitVal(c) == (CHOOSE i \in 1..10 : Ch(Digits, i) = c) - 1

RECURSIVE NatToString(_)
NatToString(n) ==
  IF n < 10 THEN Ch(Digits, n + 1)
  ELSE NatToString(n \div 10) \o Ch(Digits, (n % 10) + 1)

\* std::to_string(int)
to_string(n) == IF n < 0 THEN "-" \o NatToString(0 - n) ELSE NatToString(n)

\* printable ASCII 0x20..0x5f and 0x61..0x7e, for ordering std::map keys
AsciiLo ==
  " !\"#$%&'()*+,-./0123456789:;<=>?@ABCDEFGHIJKLMNOPQRSTUVWXYZ[\\]^_"

AsciiHi == "abcdefghijklmnopqrstuvwxyz{|}~"

CharCode(c) ==
  IF \E i \in 1..Len(AsciiLo) : Ch(AsciiLo, i) = c
  THEN 31 + (CHOOSE i \in 1..Len(AsciiLo) : Ch(AsciiLo, i) = c)
  ELSE IF \E i \in 1..Len(AsciiHi) : Ch(AsciiHi, i) = c
  THEN 96 + (CHOOSE i \in 1..Len(AsciiHi) : Ch(AsciiHi, i) = c)
  ELSE 0

RECURSIVE StrLess(_, _)
\* std::less<std::string>
StrLess(a, b) ==
  IF Len(b) = 0 THEN FALSE
  ELSE IF Len(a) = 0 THEN TRUE
  ELSE IF Ch(a, 1) = Ch(b, 1) THEN StrLess(Tail(a), Tail(b))
  ELSE CharCode(Ch(a, 1)) < CharCode(Ch(b, 1))


(***************************************************************************)
(* nlohmann::json values.  An object is a std::map: a sequence of members  *)
(* [k, v] kept sorted by key.  A number_float is sign, mant * 10^exp with  *)
(* mant not divisible by 10: the decimal a double of at most 15            *)
(* significant digits stands for.                                          *)
(***************************************************************************)
JNull == [t |-> "null"]
JBool(b) == [t |-> "boolean", b |-> b]
JInt(n) == [t |-> "number_integer", n |-> n]
JFloat(neg, mant, exp) == [t |-> "number_float", neg |-> neg, mant |-> mant, exp |-> exp]
JStr(s) == [t |-> "string", s |-> s]
JArr(a) == [t |-> "array", a |-> a]
JObj(o) == [t |-> "object", o |-> o]

\* basic_json::type_name
type_name(j) ==
  IF j.t \in {"null", "object", "array", "string", "boolean"} THEN j.t ELSE "number"

\* basic_json::contains(key): false for every value that is not an object
contains(j, key) == j.t = "object" /\ \E i \in 1..Len(j.o) : j.o[i].k = key

\* basic_json::operator[](key) on an object that contains key
at(j, key) == j.o[CHOOSE i \in 1..Len(j.o) : j.o[i].k = key].v

is_array(j) == j.t = "array"

\* basic_json::empty: null is empty, containers by size, scalars never
json_empty(j) ==
  CASE j.t = "null" -> TRUE
    [] j.t = "array" -> Len(j.a) = 0
    [] j.t = "object" -> Len(j.o) = 0
    [] OTHER -> FALSE

\* std::map::operator[](key) = value: replace, or insert in key order
ObjPut(o, key, val) ==
  IF \E i \in 1..Len(o) : o[i].k = key
  THEN [i \in 1..Len(o) |-> IF o[i].k = key THEN [k |-> key, v |-> val] ELSE o[i]]
  ELSE LET n == Cardinality({i \in 1..Len(o) : StrLess(o[i].k, key)})
       IN  SubSeq(o, 1, n) \o <<[k |-> key, v |-> val]>> \o SubSeq(o, n + 1, Len(o))

(***************************************************************************)
(* json::parse.  The subset: whitespace is space, tab, newline; strings    *)
(* with the escapes \" \\ \/ \n \t; numbers of the JSON grammar whose      *)
(* digits fit the model's integers; true, false, null; arrays; objects.    *)
(* A result is [ok, v, pos, what]: pos the index after the value, what the *)
(* exception text of a parse_error.101 (its detail after the column is     *)
(* shortened to "syntax error").                                           *)
(***************************************************************************)
ParseFail(p) ==
  [ok |-> FALSE, v |-> JNull, pos |-> p,
   what |-> "[json.exception.parse_error.101] parse error at line 1, column "
            \o to_string(p) \o ": syntax error"]

ParseOk(v, p) == [ok |-> TRUE, v |-> v, pos |-> p, what |-> ""]

WsChars == {" ", "\t", "\n"}

\* index of the first character from p on that is not whitespace
SkipWs(s, p) == FirstNotIn(s, p, WsChars)

RECURSIVE ScanString(_, _, _)
\* p is the index after the opening quote, acc the characters read so far
ScanString(s, p, acc) ==
  LET q == FirstIn(s, p, {"\"", "\\", "\n", "\t"})
      got == acc \o SubSeq(s, p, q - 1)
  IN
  IF q > Len(s) THEN ParseFail(q)
  ELSE LET c == Ch(s, q) IN
    IF c = "\"" THEN ParseOk(JStr(got), q + 1)
    ELSE IF c = "\\" THEN
      IF q + 1 > Len(s) THEN ParseFail(q + 1)
      ELSE LET e == Ch(s, q + 1) IN
        IF e \in {"\"", "\\", "/"} THEN ScanString(s, q + 2, got \o e)
        ELSE IF e = "n" THEN ScanString(s, q + 2, got \o "\n")
        ELSE IF e = "t" THEN ScanString(s, q + 2, got \o "\t")
        ELSE ParseFail(q + 1)
    ELSE ParseFail(q)

\* index after the run of digits that starts at p
ScanDigits(s, p) == FirstNotIn(s, p, DigitChars)

RECURSIVE DigitsToNat(_)
DigitsToNat(d) ==
  IF Len(d) = 0 THEN 0
  ELSE 10 * DigitsToNat(SubSeq(d, 1, Len(d) - 1)) + DigitVal(Ch(d, Len(d)))

RECURSIVE NormFloat(_, _, _)
\* mant * 10^exp with the trailing zeros of mant moved into exp
NormFloat(neg, mant, exp) ==
  IF mant = 0 THEN JFloat(neg, 0, 0)
  ELSE IF mant % 10 = 0 THEN NormFloat(neg, mant \div 10, exp + 1)
  ELSE JFloat(neg, mant, exp)

\* lexer::scan_number: -?(0|[1-9][0-9]*)(\.[0-9]+)?([eE][+-]?[0-9]+)?
ScanNumber(s, p) ==
  LET neg == Ch(s, p) = "-"
      i0 == IF neg THEN p + 1 ELSE p
      i1 == ScanDigits(s, i0)
      hasFrac == i1 <= Len(s) /\ Ch(s, i1) = "."
      f1 == IF hasFrac THEN ScanDigits(s, i1 + 1) ELSE i1
      hasExp == f1 <= Len(s) /\ Ch(s, f1) \in {"e", "E"}
      eSign == IF hasExp /\ f1 + 1 <= Len(s) /\ Ch(s, f1 + 1) \in {"+", "-"}
               THEN f1 + 2 ELSE f1 + 1
      e1 == IF hasExp THEN ScanDigits(s, eSign) ELSE f1
      intDigits == SubSeq(s, i0, i1 - 1)
      fracDigits == IF hasFrac THEN SubSeq(s, i1 + 1, f1 - 1) ELSE ""
      expVal == IF hasExp
                THEN (IF Ch(s, eSign - 1) = "-" THEN -1 ELSE 1)
                     * DigitsToNat(SubSeq(s, eSign, e1 - 1))
                ELSE 0
  IN  IF i1 = i0 THEN ParseFail(i0)
      ELSE IF i1 - i0 > 1 /\ Ch(s, i0) = "0" THEN ParseFail(i0 + 1)
      ELSE IF hasFrac /\ f1 = i1 + 1 THEN ParseFail(f1)
      ELSE IF hasExp /\ e1 = eSign THEN ParseFail(eSign)
      ELSE IF ~hasFrac /\ ~hasExp
        THEN ParseOk(JInt((IF neg THEN -1 ELSE 1) * DigitsToNat(intDigits)), e1)
      ELSE ParseOk(NormFloat(neg, DigitsToNat(intDigits \o fracDigits),
                             expVal - Len(fracDigits)), e1)

RECURSIVE ParseValue(_, _)
RECURSIVE ParseMembers(_, _, _)
RECURSIVE ParseElements(_, _, _)

\* p is at the key of the next member, o the members read so far
ParseMembers(s, p, o) ==
  LET q == SkipWs(s, p) IN
  IF q > Len(s) \/ Ch(s, q) # "\"" THEN ParseFail(q)
  ELSE LET key == ScanString(s, q + 1, "") IN
    IF ~key.ok THEN key
    ELSE LET c == SkipWs(s, key.pos) IN
      IF c > Len(s) \/ Ch(s, c) # ":" THEN ParseFail(c)
      ELSE LET val == ParseValue(s, c + 1) IN
        IF ~val.ok THEN val
        ELSE LET d == SkipWs(s, val.pos)
                 o2 == ObjPut(o, key.v.s, val.v) IN
          IF d > Len(s) THEN ParseFail(d)
          ELSE IF Ch(s, d) = "," THEN ParseMembers(s, d + 1, o2)
          ELSE IF Ch(s, d) = "}" THEN ParseOk(JObj(o2), d + 1)
          ELSE ParseFail(d)

\* p is at the next element, a the elements read so far
ParseElements(s, p, a) ==
  LET val == ParseValue(s, p) IN
  IF ~val.ok THEN val
  ELSE LET d == SkipWs(s, val.pos)
           a2 == Append(a, val.v) IN
    IF d > Len(s) THEN ParseFail(d)
    ELSE IF Ch(s, d) = "," THEN ParseElements(s, d + 1, a2)
    ELSE IF Ch(s, d) = "]" THEN ParseOk(JArr(a2), d + 1)
    ELSE ParseFail(d)

ParseValue(s, p) ==
  LET q == SkipWs(s, p) IN
  IF q > Len(s) THEN ParseFail(q)
  ELSE LET c == Ch(s, q) IN
    IF c = "{" THEN
      LET r == SkipWs(s, q + 1) IN
      IF r <= Len(s) /\ Ch(s, r) = "}" THEN ParseOk(JObj(<<>>), r + 1)
      ELSE ParseMembers(s, q + 1, <<>>)
    ELSE IF c = "[" THEN
      LET r == SkipWs(s, q + 1) IN
      IF r <= Len(s) /\ Ch(s, r) = "]" THEN ParseOk(JArr(<<>>), r + 1)
      ELSE ParseElements(s, q + 1, <<>>)
    ELSE IF c = "\"" THEN ScanString(s, q + 1, "")
    ELSE IF c = "-" \/ IsDigit(c) THEN ScanNumber(s, q)
    ELSE IF substr(s, q - 1, 4) = "true" THEN ParseOk(JBool(TRUE), q + 4)
    ELSE IF substr(s, q - 1, 5) = "false" THEN ParseOk(JBool(FALSE), q + 5)
    ELSE IF substr(s, q - 1, 4) = "null" THEN ParseOk(JNull, q + 4)
    ELSE ParseFail(q)

\* after the value r read from s: only whitespace may follow up to the end
ParseEnd(s, r) ==
  IF ~r.ok THEN r
  ELSE IF SkipWs(s, r.pos) <= Len(s) THEN ParseFail(SkipWs(s, r.pos))
  ELSE r

\* json::parse(text)
json_parse(s) == ParseEnd(s, ParseValue(s, 1))

(***************************************************************************)
(* basic_json::dump(): compact, members in key order.                      *)
(***************************************************************************)
RECURSIVE EscapeString(_)
EscapeString(s) ==
  LET q == FirstIn(s, 1, {"\"", "\\", "\n", "\t"}) IN
  IF q > Len(s) THEN s
  ELSE LET c == Ch(s, q)
           e == CASE c = "\"" -> "\\\""
                  [] c = "\\" -> "\\\\"
                  [] c = "\n" -> "\\n"
                  [] OTHER -> "\\t"
       IN  SubSeq(s, 1, q - 1) \o e \o EscapeString(SubSeq(s, q + 1, Len(s)))

\* DumpFloat that prints a whole number without the trailing ".0"
DumpFloat_NoPointZero(j) ==
  LET sign == IF j.neg THEN "-" ELSE ""
      d == NatToString(j.mant)
      k == Len(d)
      n == k + j.exp
      e == n - 1
      ea == IF e < 0 THEN 0 - e ELSE e
  IN  IF j.mant = 0 THEN sign \o "0"
      ELSE IF k <= n /\ n <= 15 THEN sign \o d \o Rep("0", n - k)
      ELSE IF 0 < n /\ n <= 15 THEN sign \o SubSeq(d, 1, n) \o "." \o SubSeq(d, n + 1, k)
      ELSE IF -4 < n /\ n <= 0 THEN sign \o "0." \o Rep("0", 0 - n) \o d
      ELSE sign \o Ch(d, 1) \o (IF k > 1 THEN "." \o SubSeq(d, 2, k) ELSE "")
           \o "e" \o (IF e < 0 THEN "-" ELSE "+")
           \o (IF ea < 10 THEN "0" ELSE "") \o NatToString(ea)

\* to_chars(double): shortest digits, fixed notation for -4 < n <= 15
DumpFloat(j) ==
  LET sign == IF j.neg THEN "-" ELSE ""
      d == NatToString(j.mant)
      k == Len(d)
      n == k + j.exp
      e == n - 1
      ea == IF e < 0 THEN 0 - e ELSE e
  IN  IF j.mant = 0 THEN sign \o "0.0"
      ELSE IF k <= n /\ n <= 15 THEN sign \o d \o Rep("0", n - k) \o ".0"
      ELSE IF 0 < n /\ n <= 15 THEN sign \o SubSeq(d, 1, n) \o "." \o SubSeq(d, n + 1, k)
      ELSE IF -4 < n /\ n <= 0 THEN sign \o "0." \o Rep("0", 0 - n) \o d
      ELSE sign \o Ch(d, 1) \o (IF k > 1 THEN "." \o SubSeq(d, 2, k) ELSE "")
           \o "e" \o (IF e < 0 THEN "-" ELSE "+")
           \o (IF ea < 10 THEN "0" ELSE "") \o NatToString(ea)

RECURSIVE dump(_)
RECURSIVE DumpSeq(_, _)
\* elements i.. of an array or members i.. of an object, comma separated
DumpSeq(j, i) ==
  LET items == IF j.t = "array" THEN j.a ELSE j.o
      one == IF j.t = "array" THEN dump(items[i])
             ELSE "\"" \o EscapeString(items[i].k) \o "\":" \o dump(items[i].v)
  IN  IF i > Len(items) THEN ""
      ELSE IF i = Len(items) THEN one
      ELSE one \o "," \o DumpSeq(j, i + 1)

dump(j) ==
  CASE j.t = "null" -> "null"
    [] j.t = "boolean" -> IF j.b THEN "true" ELSE "false"
    [] j.t = "number_integer" -> to_string(j.n)
    [] j.t = "number_float" -> DumpFloat(j)
    [] j.t = "string" -> "\"" \o EscapeString(j.s) \o "\""
    [] j.t = "array" -> "[" \o DumpSeq(j, 1) \o "]"
    [] j.t = "object" -> "{" \o DumpSeq(j, 1) \o "}"

(***************************************************************************)
(* Building json values from initializer lists.                            *)
(***************************************************************************)
RECURSIVE PutAll(_, _)
PutAll(o, pairs) ==
  IF Len(pairs) = 0 THEN o
  ELSE PutAll(ObjPut(o, pairs[1][1], pairs[1][2]), Tail(pairs))

\* json::object({{k1, v1}, ...})
json_object(pairs) == JObj(PutAll(<<>>, pairs))

\* get<std::string>(): type_error.302 unless the value is a string
get_string(j) ==
  IF j.t = "string" THEN [ok |-> TRUE, s |-> j.s, what |-> ""]
  ELSE [ok |-> FALSE, s |-> "",
        what |-> "[json.exception.type_error.302] type must be string, but is "
                 \o type_name(j)]

(***************************************************************************)
(* HttpClient.                                                             *)
(***************************************************************************)
\* HttpClient::Response::is_success
is_success(r) == r.status_code >= 200 /\ r.status_code < 300

\* index after the longest run of characters other than ':' and '/'
ScanHost(s, p) == FirstIn(s, p, {":", "/"})

RECURSIVE StripZeros(_)
StripZeros(d) == IF Len(d) > 1 /\ Ch(d, 1) = "0" THEN StripZeros(Tail(d)) ELSE d

\* std::stoi on a run of digits: out_of_range above INT_MAX
stoi(d) ==
  LET z == StripZeros(d)
      big == Len(z) > 10 \/ (Len(z) = 10 /\ StrLess(to_string(IntMax), z))
  IN  IF big THEN [throws |-> TRUE, n |-> 0] ELSE [throws |-> FALSE, n |-> DigitsToNat(z)]

\* the match of (https?)://([^:/]+)(?::(\d+))? that starts at index i, if any
MatchUrlAt(url, i) ==
  LET withS == substr(url, i - 1, 8) = "https://"
      plain == substr(url, i - 1, 7) = "http://"
      h0 == IF withS THEN i + 8 ELSE i + 7
      h1 == ScanHost(url, h0)
      hasPort == h1 + 1 <= Len(url) /\ Ch(url, h1) = ":" /\ IsDigit(Ch(url, h1 + 1))
      p1 == IF hasPort THEN ScanDigits(url, h1 + 1) ELSE h1
  IN  [matched |-> (withS \/ plain) /\ h1 > h0,
       scheme |-> IF withS THEN "https" ELSE "http",
       host |-> SubSeq(url, h0, h1 - 1),
       hasPort |-> hasPort,
       portDigits |-> IF hasPort THEN SubSeq(url, h1 + 1, p1 - 1) ELSE ""]

\* HttpClient::parse_url: std::regex_search takes the leftmost match anywhere
\* in url; throws when std::stoi throws
parse_url(url) ==
  LET starts == {i \in 1..Len(url) : MatchUrlAt(url, i).matched} IN
  IF starts = {} THEN [ok |-> FALSE, throws |-> FALSE, scheme |-> "", host |-> "", port |-> 0]
  ELSE LET m == MatchUrlAt(url, CHOOSE i \in starts : \A j \in starts : i <= j)
           port == IF m.hasPort THEN stoi(m.portDigits)
                   ELSE [throws |-> FALSE, n |-> IF m.scheme = "https" THEN 443 ELSE 80]
       IN  [ok |-> ~port.throws, throws |-> port.throws, scheme |-> m.scheme,
            host |-> m.host, port |-> port.n]

\* httplib::Error values a failed Post can carry
HttplibErrors ==
  {"Unknown", "Connection", "BindIPAddress", "Read", "Write", "ExceedRedirectCount",
   "Canceled", "SSLConnection", "SSLLoadingCerts", "SSLServerVerification",
   "UnsupportedMultipartBoundaryChars", "Compression", "ConnectionTimeout",
   "ProxyConnection"}

\* ErrorText with a message of its own for Error::ConnectionTimeout
ErrorText_TimeoutCase(err) ==
  CASE err = "Connection" -> "Connection failed"
    [] err = "BindIPAddress" -> "Failed to bind IP address"
    [] err = "Read" -> "Read error"
    [] err = "Write" -> "Write error"
    [] err = "ExceedRedirectCount" -> "Too many redirects"
    [] err = "Canceled" -> "Request canceled"
    [] err = "SSLConnection" -> "SSL connection failed"
    [] err = "SSLLoadingCerts" -> "Failed to load SSL certificates"
    [] err = "SSLServerVerification" -> "SSL server verification failed"
    [] err = "UnsupportedMultipartBoundaryChars" -> "Unsupported multipart boundary characters"
    [] err = "Compression" -> "Compression error"
    [] err = "ConnectionTimeout" -> "Connection timed out"
    [] OTHER -> "Unknown error"

\* the switch of HttpClient::post over res.error()
ErrorText(err) ==
  CASE err = "Connection" -> "Connection failed"
    [] err = "BindIPAddress" -> "Failed to bind IP address"
    [] err = "Read" -> "Read error"
    [] err = "Write" -> "Write error"
    [] err = "ExceedRedirectCount" -> "Too many redirects"
    [] err = "Canceled" -> "Request canceled"
    [] err = "SSLConnection" -> "SSL connection failed"
    [] err = "SSLLoadingCerts" -> "Failed to load SSL certificates"
    [] err = "SSLServerVerification" -> "SSL server verification failed"
    [] err = "UnsupportedMultipartBoundaryChars" -> "Unsupported multipart boundary characters"
    [] err = "Compression" -> "Compression error"
    [] OTHER -> "Unknown error"

\* HttpClient::Response
Response(status, body, error) == [status_code |-> status, body |-> body, error |-> error]

(***************************************************************************)
(* Providers.  A provider operation that posts is split at the blocking    *)
(* call: ...Request is what it hands to HttpClient::post, ...Result what   *)
(* it makes of the Response.  A result is [ret, error, parses]: the return *)
(* value, *error after the call (error is its value before the call), and  *)
(* the number of json::parse calls made.                                   *)
(***************************************************************************)
Request(url, path, body, headers, timeout) ==
  [url |-> url, path |-> path, body |-> body, headers |-> headers, timeout |-> timeout]

Outcome(ret, error, parses) == [ret |-> ret, error |-> error, parses |-> parses]

\* ApiError that serialises the error member without looking for its message
ApiError_DumpOnly(response) == dump(at(response, "error"))

\* the error a top-level "error" member yields
ApiError(response) ==
  LET err == at(response, "error") IN
  IF contains(err, "message")
  THEN LET m == get_string(at(err, "message")) IN
       IF m.ok THEN m.s ELSE "JSON parse error: " \o m.what
  ELSE dump(err)

\* "HTTP <status> - <first 100 characters of body>"
HttpStatusError(response) ==
  "HTTP " \o to_string(response.status_code) \o " - " \o substr(response.body, 0, BodyPrefixLen)

Anthropic_get_endpoint == "https://api.anthropic.com"

Anthropic_get_headers(api_key) ==
  ("x-api-key" :> api_key) @@ ("anthropic-version" :> "2023-06-01")
    @@ ("content-type" :> "application/json")

Anthropic_build_request_body(model, prompt) ==
  dump(json_object(<<
    <<"model", JStr(model)>>,
    <<"max_tokens", JInt(MaxTokens)>>,
    <<"messages", JArr(<<json_object(<< <<"role", JStr("user")>>,
                                        <<"content", JStr(prompt)>> >>)>>)>> >>))

\* Anthropic_extract looking for "text" at the top level of the body
Anthropic_extract_TopLevelText(p, error) ==
  IF ~p.ok THEN Outcome("", "JSON parse error: " \o p.what, 1)
  ELSE IF contains(p.v, "error") THEN Outcome("", ApiError(p.v), 1)
  ELSE IF contains(p.v, "text") /\ at(p.v, "text").t = "string"
    THEN Outcome(at(p.v, "text").s, error, 1)
  ELSE Outcome("", "Invalid response format: missing content", 1)

\* the try block of parse_response, p being what json::parse made of the body
Anthropic_extract(p, error) ==
  IF ~p.ok THEN Outcome("", "JSON parse error: " \o p.what, 1)
  ELSE IF contains(p.v, "error") THEN Outcome("", ApiError(p.v), 1)
  ELSE IF /\ contains(p.v, "content")
          /\ is_array(at(p.v, "content"))
          /\ ~json_empty(at(p.v, "content"))
          /\ contains(at(p.v, "content").a[1], "text")
    THEN LET text == get_string(at(at(p.v, "content").a[1], "text")) IN
         IF text.ok THEN Outcome(text.s, error, 1)
         ELSE Outcome("", "JSON parse error: " \o text.what, 1)
  ELSE Outcome("", "Invalid response format: missing content", 1)

Anthropic_parse_response(response_json, error) ==
  Anthropic_extract(json_parse(response_json), error)

\* the "Check HTTP status" block of both prompt methods, parsed being what
\* parse_response made of the body with api_error
StatusError(response, parsed) ==
  IF ~empty(parsed.error) THEN Outcome("", parsed.error, 1)
  ELSE Outcome("", HttpStatusError(response), 1)

\* Anthropic_prompt_Request with the key also sent as a query parameter
Anthropic_prompt_Request_KeyInQuery(model, api_key, prompt_text) ==
  Request(Anthropic_get_endpoint, "/v1/messages?key=" \o api_key,
          Anthropic_build_request_body(model, prompt_text),
          Anthropic_get_headers(api_key), TimeoutSeconds)

Anthropic_prompt_Request(model, api_key, prompt_text) ==
  Request(Anthropic_get_endpoint, "/v1/messages",
          Anthropic_build_request_body(model, prompt_text),
          Anthropic_get_headers(api_key), TimeoutSeconds)

Anthropic_prompt_Result(response, error) ==
  IF ~empty(response.error) THEN Outcome("", response.error, 0)
  ELSE IF ~is_success(response)
    THEN StatusError(response, Anthropic_parse_response(response.body, ""))
  ELSE Anthropic_parse_response(response.body, error)

\* Anthropic_embed that leaves *error as it was
Anthropic_embed_Silent(model, api_key, text, error) == Outcome("", error, 0)

Anthropic_embed(model, api_key, text, error) ==
  Outcome("", "Embeddings not supported for Anthropic provider", 0)

Google_get_endpoint(model) == "https://generativelanguage.googleapis.com"

Google_get_headers(api_key) ==
  ("x-goog-api-key" :> api_key) @@ ("content-type" :> "application/json")

Google_build_request_body(prompt) ==
  dump(json_object(<<
    <<"contents", JArr(<<json_object(<<
       <<"parts", JArr(<<json_object(<< <<"text", JStr(prompt)>> >>)>>)>> >>)>>)>> >>))

\* candidates[0].content.parts[0].text is there to be read
Google_has_text(response) ==
  /\ contains(response, "candidates")
  /\ is_array(at(response, "candidates"))
  /\ ~json_empty(at(response, "candidates"))
  /\ contains(at(response, "candidates").a[1], "content")
  /\ LET content == at(at(response, "candidates").a[1], "content") IN
       /\ contains(content, "parts")
       /\ is_array(at(content, "parts"))
       /\ ~json_empty(at(content, "parts"))
       /\ contains(at(content, "parts").a[1], "text")

\* the try block of parse_response, p being what json::parse made of the body
Google_extract(p, error) ==
  IF ~p.ok THEN Outcome("", "JSON parse error: " \o p.what, 1)
  ELSE IF contains(p.v, "error") THEN Outcome("", ApiError(p.v), 1)
  ELSE IF Google_has_text(p.v)
    THEN LET content == at(at(p.v, "candidates").a[1], "content")
             text == get_string(at(at(content, "parts").a[1], "text")) IN
         IF text.ok THEN Outcome(text.s, error, 1)
         ELSE Outcome("", "JSON parse error: " \o text.what, 1)
  ELSE Outcome("", "Invalid response format: missing candidates or content", 1)

Google_parse_response(response_json, error) ==
  Google_extract(json_parse(response_json), error)

Google_prompt_Request(model, api_key, prompt_text) ==
  Request(Google_get_endpoint(model), "/v1beta/models/" \o model \o ":generateContent",
          Google_build_request_body(prompt_text), Google_get_headers(api_key),
          TimeoutSeconds)

Google_prompt_Result(response, error) ==
  IF ~empty(response.error) THEN Outcome("", response.error, 0)
  ELSE IF ~is_success(response)
    THEN StatusError(response, Google_parse_response(response.body, ""))
  ELSE Google_parse_response(response.body, error)

\* Google_embed_Request with the body of generateContent
Google_embed_Request_GenerateBody(model, api_key, text) ==
  Request(Google_get_endpoint(model), "/v1beta/models/" \o model \o ":embedContent",
          Google_build_request_body(text), Google_get_headers(api_key), TimeoutSeconds)

Google_embed_Request(model, api_key, text) ==
  Request(Google_get_endpoint(model), "/v1beta/models/" \o model \o ":embedContent",
          dump(json_object(<<
            <<"content", json_object(<<
               <<"parts", JArr(<<json_object(<< <<"text", JStr(text)>> >>)>>)>> >>)>> >>)),
          Google_get_headers(api_key), TimeoutSeconds)

\* the two try blocks of embed, p being what json::parse made of the body
Google_embed_extract(response, p, error) ==
  IF ~is_success(response) THEN
    IF ~p.ok THEN Outcome("", HttpStatusError(response), 1)
    ELSE IF contains(p.v, "error") THEN
      LET err == at(p.v, "error") IN
      IF contains(err, "message")
      THEN LET m == get_string(at(err, "message")) IN
           IF m.ok THEN Outcome("", m.s, 1)
           ELSE Outcome("", HttpStatusError(response), 1)
      ELSE Outcome("", dump(err), 1)
    ELSE Outcome("", HttpStatusError(response), 1)
  ELSE IF ~p.ok THEN Outcome("", "JSON parse error: " \o p.what, 1)
  ELSE IF contains(p.v, "error") THEN Outcome("", ApiError(p.v), 1)
  ELSE IF contains(p.v, "embedding") /\ contains(at(p.v, "embedding"), "values")
    THEN Outcome(dump(at(at(p.v, "embedding"), "values")), error, 1)
  ELSE Outcome("", "Invalid response format: missing embedding.values", 1)

\* Google_embed_Result without the check for network errors
Google_embed_Result_NoNetCheck(response, error) ==
  Google_embed_extract(response, json_parse(response.body), error)

Google_embed_Result(response, error) ==
  IF ~empty(response.error) THEN Outcome("", response.error, 0)
  ELSE Google_embed_extract(response, json_parse(response.body), error)

\* create_provider accepting a capitalised name
create_provider_AnyCase(provider_name) ==
  IF provider_name \in {"anthropic", "Anthropic"} THEN "AnthropicProvider"
  ELSE IF provider_name \in {"google", "Google"} THEN "GoogleProvider"
  ELSE "nullptr"

\* create_provider: the class of the instance, or "nullptr"
create_provider(provider_name) ==
  IF provider_name = "anthropic" THEN "AnthropicProvider"
  ELSE IF provider_name = "google" THEN "GoogleProvider"
  ELSE "nullptr"

(***************************************************************************)
(* Boundary adapter: ai_prompt_impl and create_embed_impl.                 *)
(***************************************************************************)
\* vef_invalue_t
Arg(s) == [is_null |-> FALSE, str_value |-> s]
NullArg == [is_null |-> TRUE, str_value |-> ""]

\* AnyNull without the test of the fourth argument
AnyNull_ThreeArgs(a) ==
  a.provider.is_null \/ a.model.is_null \/ a.api_key.is_null

\* the NULL check that opens both functions
AnyNull(a) ==
  a.provider.is_null \/ a.model.is_null \/ a.api_key.is_null \/ a.text.is_null

\* EmptyError without the API key check
EmptyError_NoKeyCheck(f, a) ==
  IF empty(a.provider.str_value) THEN "Provider name cannot be empty"
  ELSE IF empty(a.model.str_value) THEN "Model name cannot be empty"
  ELSE IF empty(a.text.str_value)
    THEN (IF f = "ai_prompt" THEN "Prompt text cannot be empty" ELSE "Text cannot be empty")
  ELSE ""

\* EmptyError with the API key tested before the model
EmptyError_KeyBeforeModel(f, a) ==
  IF empty(a.provider.str_value) THEN "Provider name cannot be empty"
  ELSE IF empty(a.api_key.str_value) THEN "API key cannot be empty"
  ELSE IF empty(a.model.str_value) THEN "Model name cannot be empty"
  ELSE IF empty(a.text.str_value)
    THEN (IF f = "ai_prompt" THEN "Prompt text cannot be empty" ELSE "Text cannot be empty")
  ELSE ""

\* the message of the first empty-string check that fires, "" when none does
EmptyError(f, a) ==
  IF empty(a.provider.str_value) THEN "Provider name cannot be empty"
  ELSE IF empty(a.model.str_value) THEN "Model name cannot be empty"
  ELSE IF empty(a.api_key.str_value) THEN "API key cannot be empty"
  ELSE IF empty(a.text.str_value)
    THEN (IF f = "ai_prompt" THEN "Prompt text cannot be empty" ELSE "Text cannot be empty")
  ELSE ""

\* strncpy(error_msg, ("Unknown provider: " + name).c_str(), sizeof(error_msg) - 1)
\* and the terminator stored at sizeof(error_msg) - 1; the adapter's own bound
\* on provider errors takes error_msg to hold ErrorMsgMax characters
UnknownProviderError(provider_name) ==
  substr("Unknown provider: " \o provider_name, 0, ErrorMsgMax)

\* LimitError without the limit
LimitError_NoLimit(error) == error

\* if (error.length() > 255) error = error.substr(0, 255)
LimitError(error) ==
  IF Len(error) > ErrorMsgMax THEN substr(error, 0, ErrorMsgMax) ELSE error

\* max_str_len - 1 in size_t wraps to SIZE_MAX when max_str_len is 0, and
\* no std::string is longer than SIZE_MAX
ExceedsLimit(len, max_len) == max_len # 0 /\ len > max_len - 1

\* CopyLen that leaves no room for the terminator
CopyLen_NoTerminator(len, max_len) == IF len > max_len THEN max_len ELSE len

\* std::min(response.length(), result->max_str_len - 1)
CopyLen(len, max_len) == IF ExceedsLimit(len, max_len) THEN max_len - 1 ELSE len

\* vef_vdf_result_t before the function writes to it; written is the set of
\* fields stored to, terminator the index of str_buf that received '\0'
FreshResult ==
  [type |-> "UNSET", error_msg |-> "", str_buf |-> "", terminator |-> -1,
   actual_len |-> 0, written |-> {}]

ResultNull == [FreshResult EXCEPT !.type = "NULL", !.written = {"type"}]

\* ResultError that also stores an actual_len of 0
ResultError_WritesLen(msg) ==
  [FreshResult EXCEPT !.type = "ERROR", !.error_msg = msg,
                      !.written = {"type", "error_msg", "actual_len"}]

ResultError(msg) ==
  [FreshResult EXCEPT !.type = "ERROR", !.error_msg = msg,
                      !.written = {"type", "error_msg"}]

\* the "Return result" part of both functions
ResultValue(payload, max_len) ==
  LET copy_len == CopyLen(Len(payload), max_len) IN
  [FreshResult EXCEPT !.type = "VALUE",
                      !.actual_len = IF ExceedsLimit(Len(payload), max_len)
                                     THEN copy_len ELSE Len(payload),
                      !.str_buf = substr(payload, 0, copy_len),
                      !.terminator = copy_len,
                      !.written = {"type", "actual_len", "str_buf"}]

\* what both functions do with the provider's return value and error
MapOutcome(out, max_len) ==
  IF ~empty(out.error) THEN ResultError(LimitError(out.error))
  ELSE ResultValue(out.ret, max_len)

\* provider->prompt or provider->embed posts, for the two provider classes
Posts(f, provider) == ~(provider = "AnthropicProvider" /\ f = "create_embed")

\* the request of the operation f of provider
ProviderRequest(f, provider, a) ==
  IF provider = "AnthropicProvider"
  THEN Anthropic_prompt_Request(a.model.str_value, a.api_key.str_value, a.text.str_value)
  ELSE IF f = "ai_prompt"
  THEN Google_prompt_Request(a.model.str_value, a.api_key.str_value, a.text.str_value)
  ELSE Google_embed_Request(a.model.str_value, a.api_key.str_value, a.text.str_value)

\* what the operation f of provider returns for the Response r
ProviderResult(f, provider, r) ==
  IF provider = "AnthropicProvider" THEN Anthropic_prompt_Result(r, "")
  ELSE IF f = "ai_prompt" THEN Google_prompt_Result(r, "")
  ELSE Google_embed_Result(r, "")

(***************************************************************************)
(* Inputs of the model.                                                    *)
(***************************************************************************)
Functions == {"ai_prompt", "create_embed"}

LongName == Rep("provider-x", LongLen \div 10)

ProviderNames == {"", "anthropic", "google", "Anthropic", "google ", "openai", LongName}
ModelNames == {"", "m1"}
ApiKeys == {"", "sk-1"}
Texts == {"", "hi", "say \"x\""}

ArgsOf(S) == {NullArg} \cup {Arg(s) : s \in S}

BufferSizes == (0..MaxBuf) \cup {BufferSize}

Statuses == {199, 200, 299, 300, 429, 500}

LongBody == Rep("x", LongLen)

BodyRateLimited == "{\"error\":{\"message\":\"rate limited\"}}"
BodyAnthropicText == "{\"content\":[{\"text\":\"hello\"}]}"
BodyGoogleText == "{\"candidates\":[{\"content\":{\"parts\":[{\"text\":\"hey\"}]}}]}"
BodyEmbedding == "{\"embedding\":{\"values\":[0.5,-1.25,3]}}"
BodyEmbeddingFloats ==
  "{\"embedding\":{\"values\":[1E2, -0.0, 1e-7, 2.50, 12345.678, 0.001, 25e+20]}}"
BodyEmbeddingMixed ==
  "{\"embedding\":{\"values\":[1,\"a\\\"b\",null,true,{\"z\":[],\"b\":-7}]}}"

Bodies ==
  {"oops", "", LongBody, "{}",
   BodyRateLimited,
   "{\"error\":{\"message\":\"\"}}",
   "{\"error\":{\"code\":429}}",
   "{\"error\":\"bad\"}",
   "{\"error\":{\"message\":5}}",
   "{\"error\":{\"message\":\"" \o Rep("e", LongLen) \o "\"}}",
   "{\"content\":[{\"text\":\"hello\"}],\"error\":{\"message\":\"boom\"}}",
   BodyAnthropicText,
   "{\"content\":[{\"text\":\"\"}]}",
   "{\"content\":[]}",
   BodyGoogleText,
   BodyEmbedding,
   BodyEmbeddingFloats,
   BodyEmbeddingMixed,
   "{\"embedding\":{\"values\":[]}}",
   "{\"embedding\":{\"value\":[1]}}"}

(***************************************************************************)
(* State.                                                                  *)
(***************************************************************************)
VARIABLES
  pc,           \* "idle", "posting" (inside HttpClient::post), "received", "done"
  fn,           \* the function the host invoked
  args,         \* its four vef_invalue_t arguments
  max_str_len,  \* result->max_str_len
  request,      \* the arguments of the HttpClient::post in progress
  response,     \* the HttpClient::Response it returned
  returned,     \* the provider call's return value and *error, once it was made
  result,       \* *result
  posts,        \* HttpClient::post calls of this invocation
  parses,       \* json::parse calls of this invocation
  cli,          \* the httplib::Client of the post in progress and what its Post did
  inv,          \* concurrently running invocations: each one's position, arguments and *result
  frames        \* the storage of the locals response and error of the provider calls

vars ==
  <<pc, fn, args, max_str_len, request, response, returned, result, posts, parses, cli,
    inv, frames>>

\* the state of the invocations that run concurrently
conc == <<inv, frames>>

\* the state of the invocation that runs alone
alone ==
  <<pc, fn, args, max_str_len, request, response, returned, result, posts, parses, cli>>

NoArgs == [provider |-> NullArg, model |-> NullArg, api_key |-> NullArg, text |-> NullArg]
NoRequest == Request("", "", "", <<>>, 0)
NoResponse == Response(0, "", "")
NotCalled == [called |-> FALSE, ret |-> "", error |-> ""]

\* httplib::Client cli: the three timeouts set on it, whether cli.Post was
\* called, whether it obtained an HTTP response, and res->status, res->body
\* Client with set_connection_timeout alone, the other two timeouts not set
Client_ConnectOnly(timeout_seconds, posted, answered, status, body) ==
  [connection_timeout |-> timeout_seconds, read_timeout |-> 0,
   write_timeout |-> 0, posted |-> posted, answered |-> answered,
   status |-> status, body |-> body]

Client(timeout_seconds, posted, answered, status, body) ==
  [connection_timeout |-> timeout_seconds, read_timeout |-> timeout_seconds,
   write_timeout |-> timeout_seconds, posted |-> posted, answered |-> answered,
   status |-> status, body |-> body]
NoClient == Client(0, FALSE, FALSE, 0, "")

\* what() of the exceptions the statements of the try block can throw
Exceptions == {"std::bad_alloc"}
Returned(out) == [called |-> TRUE, ret |-> out.ret, error |-> out.error]

Invocations == 1..MaxInvocations

\* an invocation the host has not started
IdleInvocation ==
  [pc |-> "idle", fn |-> "ai_prompt", args |-> NoArgs, max_str_len |-> BufferSize,
   delivered |-> NoResponse, result |-> FreshResult]

\* LocalsOf with the locals in static storage, one copy for all invocations
LocalsOf_Static(i) == 1

\* the storage of the locals of invocation i: "HttpClient client", "auto
\* response" and "std::string error" are automatic, one copy per call
LocalsOf(i) == i

Init ==
  /\ inv = [i \in Invocations |-> IdleInvocation]
  /\ frames = [i \in Invocations |-> NoResponse]
  /\ pc = "idle"
  /\ fn = "ai_prompt"
  /\ args = NoArgs
  /\ max_str_len = BufferSize
  /\ request = NoRequest
  /\ response = NoResponse
  /\ returned = NotCalled
  /\ result = FreshResult
  /\ posts = 0
  /\ parses = 0
  /\ cli = NoClient

\* ai_prompt_impl / create_embed_impl from entry to return or to the post
Invoke ==
  /\ pc = "idle"
  /\ \E f \in Functions, p \in ArgsOf(ProviderNames), m \in ArgsOf(ModelNames),
        k \in ArgsOf(ApiKeys), t \in ArgsOf(Texts), len \in BufferSizes :
       LET a == [provider |-> p, model |-> m, api_key |-> k, text |-> t]
           provider == create_provider(p.str_value)
           \* AnthropicProvider::embed returns without posting
           out == Anthropic_embed(m.str_value, k.str_value, t.str_value, "")
       IN  /\ fn' = f
           /\ args' = a
           /\ max_str_len' = len
           /\ UNCHANGED <<response, parses, cli, conc>>
           /\ IF AnyNull(a)
                THEN /\ result' = ResultNull
                     /\ pc' = "done"
                     /\ UNCHANGED <<request, posts, returned>>
              ELSE IF EmptyError(f, a) # ""
                THEN /\ result' = ResultError(EmptyError(f, a))
                     /\ pc' = "done"
                     /\ UNCHANGED <<request, posts, returned>>
              ELSE IF provider = "nullptr"
                THEN /\ result' = ResultError(UnknownProviderError(p.str_value))
                     /\ pc' = "done"
                     /\ UNCHANGED <<request, posts, returned>>
              ELSE IF ~Posts(f, provider)
                THEN /\ returned' = Returned(out)
                     /\ result' = MapOutcome(out, len)
                     /\ pc' = "done"
                     /\ UNCHANGED <<request, posts>>
              ELSE /\ request' = ProviderRequest(f, provider, a)
                   /\ posts' = posts + 1
                   /\ pc' = "posting"
                   /\ UNCHANGED <<result, returned>>

\* HttpClient::post.  std::stoi of parse_url runs before the try block, so
\* what it throws leaves post ("escaped"); inside the try block a throw can
\* come before cli.Post (building http_headers) or after it (copying
\* res->body, status_code being assigned already)
HttpPost ==
  /\ pc = "posting"
  /\ \E u \in {parse_url(request.url)} :
       IF u.throws
       THEN /\ pc' = "escaped"
            /\ UNCHANGED <<response, cli>>
       ELSE IF ~u.ok
       THEN /\ response' = Response(0, "", "Invalid URL format")
            /\ pc' = "received"
            /\ UNCHANGED cli
       ELSE /\ pc' = "received"
            /\ \/ \E what \in Exceptions :
                    /\ response' = Response(0, "", "Exception: " \o what)
                    /\ cli' = Client(request.timeout, FALSE, FALSE, 0, "")
               \/ \E err \in HttplibErrors :
                    /\ response' = Response(0, "", ErrorText(err))
                    /\ cli' = Client(request.timeout, TRUE, FALSE, 0, "")
               \/ \E status \in Statuses, body \in Bodies :
                    /\ response' = Response(status, body, "")
                    /\ cli' = Client(request.timeout, TRUE, TRUE, status, body)
               \/ \E status \in Statuses, body \in Bodies, what \in Exceptions :
                    /\ response' = Response(status, "", "Exception: " \o what)
                    /\ cli' = Client(request.timeout, TRUE, TRUE, status, body)
  /\ UNCHANGED <<fn, args, max_str_len, request, returned, result, posts, parses, conc>>

\* the provider operation after the post, and the adapter's mapping of it
Return ==
  /\ pc = "received"
  /\ \E out \in {ProviderResult(fn, create_provider(args.provider.str_value), response)} :
       /\ returned' = Returned(out)
       /\ result' = MapOutcome(out, max_str_len)
       /\ parses' = parses + out.parses
  /\ pc' = "done"
  /\ UNCHANGED <<fn, args, max_str_len, request, response, posts, cli, conc>>

\* the host is handed the result and invokes the function for the next row
NextRow ==
  /\ pc = "done"
  /\ pc' = "idle"
  /\ fn' = "ai_prompt"
  /\ args' = NoArgs
  /\ max_str_len' = BufferSize
  /\ request' = NoRequest
  /\ response' = NoResponse
  /\ returned' = NotCalled
  /\ result' = FreshResult
  /\ posts' = 0
  /\ parses' = 0
  /\ cli' = NoClient
  /\ UNCHANGED conc

Next == Invoke \/ HttpPost \/ Return \/ NextRow

Spec == Init /\ [][Next]_vars

\* the steps of HttpPost and of Return as pc shows them: in a state with pc =
\* "posting" Next allows HttpPost steps only, with pc = "received" Return
\* steps only
PostReturns == pc = "posting" /\ pc' \in {"received", "escaped"}
ReturnRuns == pc = "received" /\ pc' = "done"

\* cli.Post runs under the three timeouts and comes back, and the statements
\* after it are straight-line code that runs to the return of the function
FairSpec == Spec /\ WF_pc(PostReturns) /\ WF_pc(ReturnRuns)

(***************************************************************************)
(* HttpClient::post on its own, called with any url.                       *)
(***************************************************************************)
Urls ==
  {"https://api.anthropic.com", "http://localhost:8080", "http://h:2147483647",
   "", "api.anthropic.com", "https://", "ftp://h", "ftp://xhttp://h",
   "http://h:2147483648", "https://h:99999999999"}

Timeouts == {5, TimeoutSeconds}

\* a caller enters post(url, path, body, headers, timeout_seconds)
PostCall ==
  /\ pc = "idle"
  /\ \E url \in Urls, timeout_seconds \in Timeouts :
       request' = Request(url, "/v1/messages", "{}", <<>>, timeout_seconds)
  /\ posts' = posts + 1
  /\ pc' = "posting"
  /\ UNCHANGED <<fn, args, max_str_len, response, returned, result, parses, cli, conc>>

\* post returned its Response, or the exception reached the caller
PostDone ==
  /\ pc \in {"received", "escaped"}
  /\ pc' = "idle"
  /\ request' = NoRequest
  /\ response' = NoResponse
  /\ posts' = 0
  /\ cli' = NoClient
  /\ UNCHANGED <<fn, args, max_str_len, returned, result, parses, conc>>

NextPost == PostCall \/ HttpPost \/ PostDone

SpecPost == Init /\ [][NextPost]_vars

(***************************************************************************)
(* Invocations running at the same time, as the host runs them for the     *)
(* rows of concurrent statements.  Each step is one invocation's.          *)
(***************************************************************************)
ConcProviderNames == {"anthropic", "google", "openai"}

\* Responses HttpClient::post returns
ConcResponses ==
  {Response(200, BodyAnthropicText, ""), Response(429, BodyRateLimited, ""),
   Response(0, "", "Read error")}

\* what ai_prompt_impl / create_embed_impl stores to *result when it returns
\* before the provider call, FreshResult when it goes on to it
ResultBeforeCall(f, a, max_len) ==
  IF AnyNull(a) THEN ResultNull
  ELSE IF EmptyError(f, a) # "" THEN ResultError(EmptyError(f, a))
  ELSE IF create_provider(a.provider.str_value) = "nullptr"
    THEN ResultError(UnknownProviderError(a.provider.str_value))
  ELSE IF ~Posts(f, create_provider(a.provider.str_value))
    THEN MapOutcome(Anthropic_embed(a.model.str_value, a.api_key.str_value,
                                    a.text.str_value, ""), max_len)
  ELSE FreshResult

\* invocation i from entry to return or to the post
ConcInvoke(i) ==
  /\ inv[i].pc = "idle"
  /\ \E f \in Functions, p \in ConcProviderNames :
       \E a \in {[provider |-> Arg(p), model |-> Arg("m1"), api_key |-> Arg("sk-1"),
                  text |-> Arg("hi")]} :
         \E r \in {ResultBeforeCall(f, a, BufferSize)} :
           inv' = [inv EXCEPT ![i] =
                     [pc |-> IF r = FreshResult THEN "posting" ELSE "done",
                      fn |-> f,
                      args |-> a,
                      max_str_len |-> BufferSize,
                      delivered |-> NoResponse,
                      result |-> r]]
  /\ UNCHANGED <<frames, alone>>

\* client.post of invocation i returns into the local response
ConcPost(i) ==
  /\ inv[i].pc = "posting"
  /\ \E r \in ConcResponses :
       /\ frames' = [frames EXCEPT ![LocalsOf(i)] = r]
       /\ inv' = [inv EXCEPT ![i].pc = "received", ![i].delivered = r]
  /\ UNCHANGED alone

\* the rest of the provider operation of invocation i and the adapter's
\* mapping of what it returns
ConcReturn(i) ==
  /\ inv[i].pc = "received"
  /\ \E out \in {ProviderResult(inv[i].fn, create_provider(inv[i].args.provider.str_value),
                                 frames[LocalsOf(i)])} :
       inv' = [inv EXCEPT ![i].pc = "done",
                          ![i].result = MapOutcome(out, inv[i].max_str_len)]
  /\ UNCHANGED <<frames, alone>>

\* the host takes the result of invocation i
ConcNextRow(i) ==
  /\ inv[i].pc = "done"
  /\ inv' = [inv EXCEPT ![i] = IdleInvocation]
  /\ UNCHANGED <<frames, alone>>

NextConc ==
  \E i \in Invocations : ConcInvoke(i) \/ ConcPost(i) \/ ConcReturn(i) \/ ConcNextRow(i)

SpecConc == Init /\ [][NextConc]_vars

(***************************************************************************)
(* Properties.                                                             *)
(***************************************************************************)
\* the invocation returned to the host
Done == pc = "done"

\* all four arguments are non-NULL
NoneNull ==
  /\ ~args.provider.is_null /\ ~args.model.is_null
  /\ ~args.api_key.is_null /\ ~args.text.is_null

\* the "<field> cannot be empty" messages of the arguments that are empty
EmptyFieldMessages ==
  (IF args.provider.str_value = "" THEN {"Provider name cannot be empty"} ELSE {})
  \cup (IF args.model.str_value = "" THEN {"Model name cannot be empty"} ELSE {})
  \cup (IF args.api_key.str_value = "" THEN {"API key cannot be empty"} ELSE {})
  \cup (IF args.text.str_value # "" THEN {}
        ELSE IF fn = "ai_prompt" THEN {"Prompt text cannot be empty"}
        ELSE {"Text cannot be empty"})

\* C1: with four non-NULL arguments of which at least one is the empty string,
\* ai_prompt and create_embed return ERROR with the "<field> cannot be empty"
\* message of an empty argument, and no HttpClient::post is made.
C1_EmptyArgumentIsError ==
  (Done /\ NoneNull /\ EmptyFieldMessages # {}) =>
    /\ result.type = "ERROR"
    /\ result.error_msg \in EmptyFieldMessages
    /\ posts = 0
    /\ ~returned.called

\* create_embed('google', 'm1', '', 'hi') has returned "API key cannot be empty"
C1_Witness ==
  /\ Done /\ NoneNull /\ fn = "create_embed"
  /\ args.provider.str_value = "google" /\ args.model.str_value = "m1"
  /\ args.api_key.str_value = "" /\ args.text.str_value = "hi"
  /\ result.type = "ERROR" /\ result.error_msg = "API key cannot be empty"

\* C2: when any of the four arguments is NULL, ai_prompt and create_embed
\* return NULL, write no error message and make no HttpClient::post, whatever
\* the other three arguments are.
C2_NullArgumentIsNull ==
  (Done /\ ~NoneNull) =>
    /\ result.type = "NULL"
    /\ result.written = {"type"}
    /\ posts = 0
    /\ ~returned.called

\* ai_prompt('openai', '', 'sk-1', NULL) has returned NULL
C2_Witness ==
  /\ Done /\ fn = "ai_prompt"
  /\ args.text.is_null /\ ~args.provider.is_null /\ ~args.model.is_null
  /\ args.provider.str_value = "openai" /\ args.model.str_value = ""
  /\ result.type = "NULL"

\* four non-NULL, non-empty arguments and a provider name outside the registry
UnknownProviderCall ==
  /\ Done /\ NoneNull /\ EmptyFieldMessages = {}
  /\ args.provider.str_value \notin {"anthropic", "google"}

Replied == Done /\ posts = 1 /\ response.error = ""

Is2xx == response.status_code \in 200..299

\* C4 as stated: for every operation that posts, a non-2xx response whose body
\* is not valid JSON is reported as "HTTP <status> - " followed by the first
\* 100 characters of the body.
C4_Original ==
  (Replied /\ ~Is2xx /\ ~json_parse(response.body).ok) =>
    /\ returned.ret = ""
    /\ returned.error =
         "HTTP " \o to_string(response.status_code) \o " - "
         \o SubSeq(response.body, 1,
                   IF Len(response.body) > 100 THEN 100 ELSE Len(response.body))

\* p, the parsed body, is an object whose "error" member is an object with a
\* non-empty string "message"
HasErrorMessage(p) ==
  /\ p.ok
  /\ contains(p.v, "error")
  /\ contains(at(p.v, "error"), "message")
  /\ at(at(p.v, "error"), "message").t = "string"
  /\ at(at(p.v, "error"), "message").s # ""

C5_For(p) ==
  HasErrorMessage(p) =>
    /\ returned.ret = ""
    /\ returned.error = at(at(p.v, "error"), "message").s

\* C5: for every operation that posts, a non-2xx response whose body is a JSON
\* object with an error object carrying a non-empty message string is
\* reported as exactly that message.
C5_StructuredErrorWins == (Replied /\ ~Is2xx) => C5_For(json_parse(response.body))

\* ai_prompt on anthropic answered 429 {"error":{"message":"rate limited"}}
C5_Witness ==
  /\ Replied /\ fn = "ai_prompt" /\ args.provider.str_value = "anthropic"
  /\ response.status_code = 429 /\ response.body = BodyRateLimited
  /\ returned.error = "rate limited"

\* C6 as stated: after any provider operation returns, exactly one of the
\* returned payload and the error string is non-empty.
C6_Original ==
  (Done /\ returned.called) => ((returned.ret = "") # (returned.error = ""))

\* C7: when HttpClient::post reports a transport error, every operation that
\* posts returns exactly that message as its error and an empty payload, and
\* json::parse is not called.
C7_TransportErrorVerbatim ==
  (Done /\ posts = 1 /\ response.error # "") =>
    /\ returned.called
    /\ returned.error = response.error
    /\ returned.ret = ""
    /\ parses = 0

\* create_embed on google ended in "Connection failed"
C7_Witness ==
  /\ Done /\ posts = 1 /\ fn = "create_embed" /\ args.provider.str_value = "google"
  /\ response.error = "Connection failed"
  /\ returned.error = "Connection failed"
  /\ result.type = "ERROR"

\* p, the parsed body, has no "error" member and a string at content[0].text
WellFormedAnthropic(p) ==
  /\ p.ok
  /\ ~contains(p.v, "error")
  /\ contains(p.v, "content")
  /\ at(p.v, "content").t = "array"
  /\ Len(at(p.v, "content").a) > 0
  /\ contains(at(p.v, "content").a[1], "text")
  /\ at(at(p.v, "content").a[1], "text").t = "string"

\* p has no "error" member and a string at candidates[0].content.parts[0].text
WellFormedGoogle(p) ==
  /\ p.ok
  /\ ~contains(p.v, "error")
  /\ contains(p.v, "candidates")
  /\ at(p.v, "candidates").t = "array"
  /\ Len(at(p.v, "candidates").a) > 0
  /\ contains(at(p.v, "candidates").a[1], "content")
  /\ contains(at(at(p.v, "candidates").a[1], "content"), "parts")
  /\ at(at(at(p.v, "candidates").a[1], "content"), "parts").t = "array"
  /\ Len(at(at(at(p.v, "candidates").a[1], "content"), "parts").a) > 0
  /\ contains(at(at(at(p.v, "candidates").a[1], "content"), "parts").a[1], "text")
  /\ at(at(at(at(p.v, "candidates").a[1], "content"), "parts").a[1], "text").t = "string"

C8_For(p) ==
  /\ (args.provider.str_value = "anthropic" /\ WellFormedAnthropic(p)) =>
       /\ returned.ret = at(at(p.v, "content").a[1], "text").s
       /\ returned.error = ""
  /\ (args.provider.str_value = "google" /\ WellFormedGoogle(p)) =>
       /\ returned.ret =
            at(at(at(at(p.v, "candidates").a[1], "content"), "parts").a[1], "text").s
       /\ returned.error = ""

\* C8: on a 2xx response whose body is well-formed and has no top-level error
\* member, generate returns exactly the string at content[0].text (Anthropic)
\* or candidates[0].content.parts[0].text (Google), with an empty error.
C8_SuccessTextReturned ==
  (Replied /\ Is2xx /\ fn = "ai_prompt") => C8_For(json_parse(response.body))

\* ai_prompt on anthropic answered 200 {"content":[{"text":"hello"}]}
C8_Witness ==
  /\ Replied /\ fn = "ai_prompt" /\ args.provider.str_value = "anthropic"
  /\ response.status_code = 200 /\ response.body = BodyAnthropicText
  /\ returned.ret = "hello" /\ returned.error = ""
  /\ result.type = "VALUE"

\* create_embed with provider "anthropic" and four non-empty arguments
AnthropicEmbedCall ==
  /\ Done /\ NoneNull /\ EmptyFieldMessages = {}
  /\ fn = "create_embed" /\ args.provider.str_value = "anthropic"

\* C9: embed on the Anthropic provider returns the error "Embeddings not
\* supported for Anthropic provider" with an empty payload for every model,
\* credential and text, and makes no post.
C9_AnthropicEmbedUnsupported ==
  AnthropicEmbedCall =>
    /\ returned.called
    /\ returned.ret = ""
    /\ returned.error = "Embeddings not supported for Anthropic provider"
    /\ result.type = "ERROR"
    /\ result.error_msg = "Embeddings not supported for Anthropic provider"
    /\ posts = 0
    /\ request = NoRequest

\* create_embed('anthropic', 'm1', 'sk-1', 'hi') has returned the error
C9_Witness ==
  /\ AnthropicEmbedCall
  /\ args.model.str_value = "m1" /\ args.api_key.str_value = "sk-1"
  /\ args.text.str_value = "hi"
  /\ result.error_msg = "Embeddings not supported for Anthropic provider"

Min(a, b) == IF a < b THEN a ELSE b

\* C10: for a successful payload of length L and a buffer size M >= 1, both
\* functions emit the first min(L, M - 1) bytes of the payload, store the
\* terminator at that index and report min(L, M - 1) as the actual length.
C10_TruncatedToBuffer ==
  (Done /\ result.type = "VALUE" /\ max_str_len >= 1) =>
    /\ result.str_buf = SubSeq(returned.ret, 1, Min(Len(returned.ret), max_str_len - 1))
    /\ result.terminator = Min(Len(returned.ret), max_str_len - 1)
    /\ result.actual_len = Min(Len(returned.ret), max_str_len - 1)

\* create_embed on google returned "[0.5,-1.25,3]" into a buffer of 4 bytes
C10_Witness ==
  /\ Done /\ result.type = "VALUE" /\ fn = "create_embed"
  /\ max_str_len = 4 /\ returned.ret = "[0.5,-1.25,3]"
  /\ result.str_buf = "[0." /\ result.terminator = 3 /\ result.actual_len = 3

\* C11: for every buffer limit max_str_len, 0 included, the bytes stored into
\* str_buf (the payload bytes and the terminator after them) number at most
\* max_str_len
C11_Original ==
  (Done /\ result.type = "VALUE") => result.terminator + 1 <= max_str_len

\* create_embed on the Google provider got an HTTP response
GoogleEmbedReplied ==
  /\ Replied /\ fn = "create_embed" /\ args.provider.str_value = "google"

\* q, the deserialization of what embed returned, is values: the same
\* elements, as many and in the same order
C12_Same(values, q) ==
  /\ q.ok
  /\ q.v = values
  /\ is_array(values) =>
       /\ is_array(q.v)
       /\ Len(q.v.a) = Len(values.a)
       /\ \A i \in 1..Len(values.a) : q.v.a[i] = values.a[i]

C12_For(p) ==
  (/\ p.ok /\ ~contains(p.v, "error")
   /\ contains(p.v, "embedding") /\ contains(at(p.v, "embedding"), "values")) =>
    /\ returned.error = ""
    /\ C12_Same(at(at(p.v, "embedding"), "values"), json_parse(returned.ret))

\* C12: on a 2xx response whose body carries embedding.values and no top-level
\* error, Google embed returns a serialization of embedding.values that
\* deserializes to the same elements, in the same order and of the same length.
C12_EmbedRoundTrip ==
  (GoogleEmbedReplied /\ Is2xx) => C12_For(json_parse(response.body))

\* the floats 1E2, -0.0, 1e-7, 2.50, 12345.678, 0.001 and 25e+20 came back
C12_Witness ==
  /\ GoogleEmbedReplied /\ response.status_code = 200
  /\ response.body = BodyEmbeddingFloats
  /\ returned.ret = "[100.0,-0.0,1e-07,2.5,12345.678,0.001,2.5e+21]"

\* post returned a Response to its caller
PostReturned == pc = "received"

\* C13 as stated: in every Response post returns, error is non-empty only when
\* no HTTP response was obtained, and then status_code is 0 and body empty;
\* when a response was received, status_code and body are the received ones
\* and error is empty.
C13_Original ==
  PostReturned =>
    /\ response.error # "" =>
         ~cli.answered /\ response.status_code = 0 /\ response.body = ""
    /\ cli.answered =>
         /\ response.status_code = cli.status /\ response.body = cli.body
         /\ response.error = ""

\* url is scheme://host[:port], nothing before or after it, the scheme http or
\* https and the port within int
WellFormedUrl(url) ==
  \E scheme \in {"http://", "https://"} :
    /\ substr(url, 0, Len(scheme)) = scheme
    /\ LET h0 == Len(scheme) + 1
           h1 == FirstIn(url, h0, {":", "/"})
       IN  /\ h1 > h0
           /\ \/ h1 > Len(url)
              \/ /\ Ch(url, h1) = ":" /\ h1 < Len(url)
                 /\ FirstNotIn(url, h1 + 1, DigitChars) > Len(url)
                 /\ ~stoi(SubSeq(url, h1 + 1, Len(url))).throws

\* post of a well-formed url came back without an HTTP response
NoResponseObtained ==
  PostReturned /\ WellFormedUrl(request.url) /\ ~cli.answered

TwelveMessages ==
  {"Connection failed", "Failed to bind IP address", "Read error", "Write error",
   "Too many redirects", "Request canceled", "SSL connection failed",
   "Failed to load SSL certificates", "SSL server verification failed",
   "Unsupported multipart boundary characters", "Compression error", "Unknown error"}

\* C14 as stated: when post obtains no HTTP response from a well-formed url,
\* error is one of the twelve messages and nothing else.
C14_Original ==
  NoResponseObtained => response.error \in TwelveMessages

\* C14: when post obtains no HTTP response from a well-formed url, error is one
\* of the twelve messages, or "Exception: " followed by the what() of an
\* exception thrown inside post.
C14_TransportErrorVocabulary ==
  NoResponseObtained =>
    \/ response.error \in TwelveMessages
    \/ /\ substr(response.error, 0, 11) = "Exception: "
       /\ Len(response.error) > 11

\* the TLS handshake failed on the way to https://api.anthropic.com
C14_Witness ==
  /\ NoResponseObtained /\ request.url = "https://api.anthropic.com"
  /\ cli.posted /\ response.error = "SSL connection failed"

\* C15 as stated: for every url that is not scheme://host[:port] with scheme
\* http or https and a port within int, post returns error "invalid URL
\* format" (in either capitalisation of its first letter), attempts no
\* connection and lets no exception reach its caller.
C15_Original ==
  (pc \in {"received", "escaped"} /\ ~WellFormedUrl(request.url)) =>
    /\ pc = "received"
    /\ response.error \in {"invalid URL format", "Invalid URL format"}
    /\ ~cli.posted

\* the post of this invocation failed: a transport error, a non-2xx status or
\* a body that is not JSON
PostFailed ==
  /\ Done /\ posts = 1
  /\ \/ response.error # ""
     \/ ~Is2xx
     \/ ~json_parse(response.body).ok

\* C16 as stated: an invocation posts at most once, and after a transport
\* error, a non-2xx status or a parse failure it ends in ERROR without a
\* second post.
C16_Original ==
  /\ posts <= 1
  /\ PostFailed => result.type = "ERROR" /\ result.error_msg # ""

\* the invocation ended in ERROR with the message of a provider or of the
\* unknown provider name
UpstreamError ==
  /\ Done /\ result.type = "ERROR"
  /\ UnknownProviderCall \/ returned.called

\* error_msg is the first Min(Len(full), 255) characters of full
C17_For(full) ==
  /\ Len(result.error_msg) <= 255
  /\ Len(result.error_msg) = Min(Len(full), 255)
  /\ result.error_msg = SubSeq(full, 1, Len(result.error_msg))

RunAlone(v, early) ==
  IF early # FreshResult THEN early
  ELSE MapOutcome(ProviderResult(v.fn, create_provider(v.args.provider.str_value),
                                 v.delivered),
                  v.max_str_len)

\* C19: in every interleaving of concurrently running invocations, each
\* invocation's result is the one it produces when run alone with the same
\* arguments and the same transport response.
C19_InvocationsIndependent ==
  \A i \in Invocations :
    inv[i].pc = "done" =>
      inv[i].result = RunAlone(inv[i], ResultBeforeCall(inv[i].fn, inv[i].args,
                                                         inv[i].max_str_len))

\* two invocations were between post and return at the same time with
\* different responses, and the first has returned its own
C19_Witness ==
  /\ inv[1].pc = "done" /\ inv[2].pc = "received"
  /\ inv[1].fn = "ai_prompt" /\ inv[1].args.provider.str_value = "anthropic"
  /\ inv[1].delivered = Response(200, BodyAnthropicText, "")
  /\ inv[2].delivered = Response(0, "", "Read error")
  /\ frames[2] = inv[2].delivered
  /\ inv[1].result.type = "VALUE" /\ inv[1].result.str_buf = "hello"

\* C20: an invocation that was entered returns to the host with a result; its
\* only blocking step is the one post, made with 30 seconds for each of the
\* connect, read and write timeouts, and once the post has returned the
\* invocation returns in its next step, with no further post.
C20_Terminates ==
  /\ [](pc = "posting" => posts = 1 /\ request.timeout = 30)
  /\ [](cli.posted =>
          /\ cli.connection_timeout = 30
          /\ cli.read_timeout = 30
          /\ cli.write_timeout = 30)
  /\ [][pc = "received" => pc' = "done" /\ posts' = posts]_vars
  /\ (pc = "posting") ~> (pc = "done" /\ result.type \in {"ERROR", "VALUE"})

\* the post ran into its read timeout and the invocation returned the error
C20_Witness ==
  /\ Done /\ posts = 1 /\ cli.posted /\ cli.read_timeout = 30
  /\ response.error = "Read error"
  /\ result.type = "ERROR" /\ result.error_msg = "Read error"

\* sub occurs in s
Occurs(sub, s) ==
  \E i \in 1..(Len(s) - Len(sub) + 1) : SubSeq(s, i, i + Len(sub) - 1) = sub

\* the API-key header of the provider the invocation resolved
KeyHeader ==
  IF args.provider.str_value = "anthropic" THEN "x-api-key" ELSE "x-goog-api-key"

\* the invocation has built the request of its post
Requested == pc \in {"posting", "received", "done"} /\ posts = 1

\* C21: the credential is passed unchanged to the one request of an
\* invocation: it is the value of the vendor's API-key header (x-api-key for
\* Anthropic, x-goog-api-key for Google) and occurs nowhere else in the
\* request, not in the URL, the path, the body or another header; and once
\* the invocation has returned, the request and its client are gone.
C21_CredentialOnlyInHeader ==
  /\ posts <= 1
  /\ Requested =>
       /\ KeyHeader \in DOMAIN request.headers
       /\ request.headers[KeyHeader] = args.api_key.str_value
       /\ \A h \in DOMAIN request.headers \ {KeyHeader} :
            ~Occurs(args.api_key.str_value, request.headers[h])
       /\ ~Occurs(args.api_key.str_value, request.url)
       /\ ~Occurs(args.api_key.str_value, request.path)
       /\ ~Occurs(args.api_key.str_value, request.body)
  /\ pc = "idle" => request = NoRequest /\ cli = NoClient

\* the Anthropic request carrying the key "sk-1" in x-api-key
C21_Witness ==
  /\ pc = "posting" /\ args.provider.str_value = "anthropic"
  /\ args.api_key.str_value = "sk-1"
  /\ request.headers["x-api-key"] = "sk-1"
  /\ request.path = "/v1/messages"
  /\ DOMAIN request.headers = {"x-api-key", "anthropic-version", "content-type"}

\* the fields in the order they are validated, with the message of each
ValidationOrder ==
  <<[empty |-> args.provider.str_value = "", msg |-> "Provider name cannot be empty"],
    [empty |-> args.model.str_value = "", msg |-> "Model name cannot be empty"],
    [empty |-> args.api_key.str_value = "", msg |-> "API key cannot be empty"],
    [empty |-> args.text.str_value = "",
     msg |-> IF fn = "ai_prompt" THEN "Prompt text cannot be empty"
             ELSE "Text cannot be empty"]>>

\* C22: the four fields are validated in the order provider name, model,
\* credential, input text and before the provider is resolved: the message
\* reported is that of the first empty field in this order, also when the
\* provider name is not registered, and the unknown-provider error appears only
\* when all four fields are non-empty; no post is made in either case.
C22_ValidationOrder ==
  (Done /\ NoneNull) =>
    /\ \A i \in 1..4 :
         (ValidationOrder[i].empty /\ \A j \in 1..(i - 1) : ~ValidationOrder[j].empty) =>
           /\ result.type = "ERROR"
           /\ result.error_msg = ValidationOrder[i].msg
           /\ posts = 0
    /\ (result.type = "ERROR" /\ substr(result.error_msg, 0, 16) = "Unknown provider") =>
         /\ \A i \in 1..4 : ~ValidationOrder[i].empty
         /\ posts = 0

\* an unregistered provider name with an empty model and an empty key: the
\* model's message is the one reported
C22_Witness ==
  /\ Done /\ NoneNull /\ args.provider.str_value = "openai"
  /\ args.model.str_value = "" /\ args.api_key.str_value = ""
  /\ result.type = "ERROR" /\ result.error_msg = "Model name cannot be empty"

\* the text of a message member: the string itself, any other value serialized
MessageText(m) == IF m.t = "string" THEN m.s ELSE dump(m)

\* the operation of this invocation: its success path in p and the payload there
SuccessPath(p) ==
  IF fn = "create_embed"
    THEN contains(p.v, "embedding") /\ contains(at(p.v, "embedding"), "values")
  ELSE IF args.provider.str_value = "anthropic" THEN WellFormedAnthropic(p)
  ELSE WellFormedGoogle(p)

SuccessPayload(p) ==
  IF fn = "create_embed" THEN dump(at(at(p.v, "embedding"), "values"))
  ELSE IF args.provider.str_value = "anthropic"
    THEN at(at(p.v, "content").a[1], "text").s
  ELSE at(at(at(at(p.v, "candidates").a[1], "content"), "parts").a[1], "text").s

\* the four rules applied to p, the parsed body, the first that applies deciding
C23_For(p) ==
  IF ~p.ok
    THEN returned.ret = "" /\ returned.error = "JSON parse error: " \o p.what
  ELSE IF contains(p.v, "error")
    THEN /\ returned.ret = ""
         /\ returned.error =
              IF contains(at(p.v, "error"), "message")
              THEN MessageText(at(at(p.v, "error"), "message"))
              ELSE dump(at(p.v, "error"))
  ELSE IF SuccessPath(p)
    THEN returned.error = "" /\ returned.ret = SuccessPayload(p)
  ELSE /\ returned.ret = ""
       /\ substr(returned.error, 0, 33) = "Invalid response format: missing "

\* C23 as stated: on a 2xx response every provider operation decides by the
\* first applicable rule: (1) a body that is not valid JSON gives "JSON parse
\* error: <detail>" and no payload; (2) a top-level error member gives its
\* message field if present, else the serialized error, as the error, also
\* when a success payload is present; (3) the success path gives the payload;
\* (4) otherwise "Invalid response format: missing <expected field>".
C23_Original ==
  (Replied /\ Is2xx) => C23_For(json_parse(response.body))

\* C24 as stated: for every operation that posts, a non-2xx response whose
\* body is valid JSON without a top-level error member is reported as "HTTP
\* <status> - " followed by the first 100 characters of the body, the same
\* for Anthropic generate, Google generate and Google embed.
C24_Original ==
  (/\ Replied /\ ~Is2xx
   /\ json_parse(response.body).ok
   /\ ~contains(json_parse(response.body).v, "error")) =>
    /\ returned.ret = ""
    /\ returned.error =
         "HTTP " \o to_string(response.status_code) \o " - " \o substr(response.body, 0, 100)

\* a JSON object of one member
Obj1(key, val) == JObj(<<[k |-> key, v |-> val]>>)

\* {parts:[{text:<text>}]}
PartsOf(text) == Obj1("parts", JArr(<<Obj1("text", JStr(text))>>))

\* the request of a Google operation has been built
GoogleRequested == Requested /\ args.provider.str_value = "google"

\* b, the deserialized request body, and the path belong to the operation
C25_For(b) ==
  /\ b.ok
  /\ request.url = "https://generativelanguage.googleapis.com"
  /\ fn = "ai_prompt" =>
       /\ request.path =
            "/v1beta/models/" \o args.model.str_value \o ":generateContent"
       /\ b.v = Obj1("contents", JArr(<<PartsOf(args.text.str_value)>>))
  /\ fn = "create_embed" =>
       /\ request.path =
            "/v1beta/models/" \o args.model.str_value \o ":embedContent"
       /\ b.v = Obj1("content", PartsOf(args.text.str_value))

\* C25: the Google provider posts generate to "/v1beta/models/<model>:
\* generateContent" with body {contents:[{parts:[{text:<input>}]}]} and embed
\* to "/v1beta/models/<model>:embedContent" with body {content:{parts:[{text:
\* <input>}]}}, both to the same fixed host, neither with the other's path
\* suffix or body shape.
C25_GoogleRequestShape ==
  GoogleRequested => C25_For(json_parse(request.body))

\* the embed request for a text with quotes in it
C25_Witness ==
  /\ GoogleRequested /\ fn = "create_embed" /\ args.text.str_value = "say \"x\""
  /\ request.path = "/v1beta/models/m1:embedContent"
  /\ request.body = "{\"content\":{\"parts\":[{\"text\":\"say \\\"x\\\"\"}]}}"

\* C26 as stated: a response with a status outside 200..299 never ends in
\* VALUE: for every body, ai_prompt and create_embed end in ERROR with a
\* non-empty message.
C26_Original ==
  (Replied /\ ~Is2xx) => result.type = "ERROR" /\ result.error_msg # ""

====
